---- MODULE Spec2Model ----
(***************************************************************************)
(* cdx-central (src/main.go): the concurrent, two-stage crawl of Maven     *)
(* Central for CycloneDX SBOMs.  main starts `concurrency` workers that    *)
(* range over a capacity-1 channel of artifacts, collects the artifacts by *)
(* offset pagination, sends them, closes the channel and waits on a        *)
(* WaitGroup.  Each worker paginates the version search of its artifact    *)
(* and calls downloadSBOM for every GAV it collected.                      *)
(*                                                                         *)
(* Strings the program takes apart or glues together (group, artifact and  *)
(* version identifiers, file names, URLs, response bodies) are sequences   *)
(* of one-character strings, so that concatenation and ReplaceAll are      *)
(* computed as the code computes them.                                     *)
(***************************************************************************)
EXTENDS Integers, Sequences, FiniteSets, TLC

\* ------------------------------------------------------------- bounds
MaxWorkers == 2        \* values of -concurrency explored: 0..MaxWorkers
MaxArtifacts == 3      \* longest artifact result set of the search server
MaxVersions == 2       \* longest version result set of one artifact
MaxRows == 2           \* page sizes explored: 1..MaxRows
MaxComponents == 2     \* largest component list of an SBOM body

\* ------------------------------------------------------------- program constants
ChanCap == 1           \* make(chan Artifact, 1)
StatusOK == 200        \* http.StatusOK
SBOMTag == "-cyclonedx.json"

VARIABLES
    concurrency,    \* flag -concurrency
    minComponents,  \* flag -min-components
    rows,           \* page size passed to searchArtifacts / searchVersions
    srvArtifacts,   \* search server: result set of q=cyclonedx.json
    srvVersions,    \* search server: result set of core=gav per group/artifact
    srvSBOM,        \* repository server: response per download URL
    mainPc,         \* position of main
    mStart,         \* collectArtifacts: start
    mArtifacts,     \* collectArtifacts: artifacts (then main's artifacts)
    sendIdx,        \* index of the range loop of main over artifacts
    chan,           \* buffer of artifactsChan
    closed,         \* artifactsChan closed
    wg,             \* counter of the WaitGroup
    wk,             \* the worker goroutines: position and locals
    fs,             \* files of the output directory: name -> bytes
    exit,           \* "running", or how the process ended
    aOffsets,       \* history: offsets requested by collectArtifacts
    ev              \* history: the call that returned in the last step

vars == <<concurrency, minComponents, rows, srvArtifacts, srvVersions, srvSBOM,
          mainPc, mStart, mArtifacts, sendIdx, chan, closed, wg, wk, fs, exit,
          aOffsets, ev>>

config == <<concurrency, minComponents, rows, srvArtifacts, srvVersions, srvSBOM>>

\* ------------------------------------------------------------- helpers
Min(a, b) == IF a < b THEN a ELSE b

SeqsUpTo(S, n) == UNION {[1..k -> S] : k \in 0..n}

Range(s) == {s[i] : i \in 1..Len(s)}

\* ------------------------------------------------------------- data types
\* Artifact (struct) built from one doc of ArtifactSearchResponse
Artifact(doc) ==
    [GroupID |-> doc.g, ArtifactID |-> doc.a, LatestVersion |-> doc.latestVersion]

\* GAV (struct) built from one doc of VersionSearchResponse
GAV(doc) ==
    [GroupID |-> doc.g, ArtifactID |-> doc.a, Version |-> doc.v]

NoArtifact == [GroupID |-> <<>>, ArtifactID |-> <<>>, LatestVersion |-> <<>>]
NoGAV == [GroupID |-> <<>>, ArtifactID |-> <<>>, Version |-> <<>>]

\* mutant of contains: any non-empty list of tags matches
containsAny(haystack, needle) == haystack # <<>>

\* contains(haystack, needle)
RECURSIVE contains(_, _)
contains(haystack, needle) ==
    IF haystack = <<>> THEN FALSE
    ELSE IF Head(haystack) = needle THEN TRUE
    ELSE contains(Tail(haystack), needle)

\* strings.ReplaceAll for a one-character old and new
ReplaceAll(s, old, new) ==
    [i \in 1..Len(s) |-> IF s[i] = old THEN new ELSE s[i]]

\* the URL downloadSBOM requests
DownloadURL(gav) ==
    <<"https://repo1.maven.org/maven2/">>
        \o ReplaceAll(gav.GroupID, ".", "/") \o <<"/">>
        \o gav.ArtifactID \o <<"/">> \o gav.Version \o <<"/">>
        \o gav.ArtifactID \o <<"-">> \o gav.Version
        \o <<"-", "c", "y", "c", "l", "o", "n", "e", "d", "x", ".", "j", "s", "o", "n">>

\* the file name downloadSBOM writes to (inside outputDir)
FileName(gav) ==
    gav.GroupID \o <<"_">> \o gav.ArtifactID \o <<"_">> \o gav.Version
        \o <<".", "c", "d", "x", ".", "j", "s", "o", "n">>

\* ------------------------------------------------------------- SBOM documents
\* A response body is a sequence of tokens of a JSON document: "{" "}" the
\* braces of the BOM object, "components" "[" ... "]" its component list with
\* one "c" per component, " " insignificant whitespace.
StripWS(b) == SelectSeq(b, LAMBDA t : t # " ")

DecodeError == [err |-> TRUE, hasComponents |-> FALSE, Components |-> <<>>]

\* cyclonedx.NewBOMDecoder(bytes.NewReader(resBytes), JSON).Decode(&sbom):
\* sbom.Components is nil when the document has no component list
Decode(resBytes) ==
    LET s == StripWS(resBytes)
        n == Len(s)
    IN  IF s = <<"{", "}">>
        THEN [err |-> FALSE, hasComponents |-> FALSE, Components |-> <<>>]
        ELSE IF /\ n >= 5
                /\ s[1] = "{" /\ s[2] = "components" /\ s[3] = "["
                /\ s[n - 1] = "]" /\ s[n] = "}"
                /\ \A i \in 4..(n - 2) : s[i] = "c"
        THEN [err |-> FALSE, hasComponents |-> TRUE, Components |-> SubSeq(s, 4, n - 2)]
        ELSE DecodeError

\* componentCount of downloadSBOM
ComponentCount(sbom) ==
    IF sbom.hasComponents THEN Len(sbom.Components) ELSE 0

\* mutants of Discards: the boundary on the wrong side, the comparison flipped
DiscardsAtThreshold(componentCount, minC) == componentCount <= minC
DiscardsAbove(componentCount, minC) == componentCount > minC

\* the filter of downloadSBOM: componentCount < minComponents discards
Discards(componentCount, minC) == componentCount < minC

\* the bytes downloadSBOM hands to f.Write
BytesToWrite(resBytes, sbom) == resBytes

\* ------------------------------------------------------------- servers
\* the status codes a server answers with: 200, another 2xx, a non-2xx
Statuses == {StatusOK, 201, 404}

\* one page of a result set: Solr's rows/start window
Page(docs, n, start) == SubSeq(docs, start + 1, Min(start + n, Len(docs)))

\* what can come back for one search request: no response at all, or a
\* status and a body that is valid JSON or not
SearchOutcomes ==
    {[transport |-> TRUE, status |-> 0, json |-> FALSE]}
        \cup {[transport |-> FALSE, status |-> s, json |-> j] :
                s \in Statuses, j \in BOOLEAN}

SearchError == [err |-> TRUE, val |-> <<>>]

\* searchArtifacts(rows, start), given the outcome of its request and the
\* docs of the page the server holds for it
searchArtifacts(out, docs) ==
    IF out.transport THEN SearchError
    ELSE IF out.status # StatusOK THEN SearchError
    ELSE IF ~out.json THEN SearchError
    ELSE [err |-> FALSE, val |-> [i \in 1..Len(docs) |-> Artifact(docs[i])]]

\* the docs loop of searchVersions: keep the docs that carry the SBOM tag
RECURSIVE TaggedGAVs(_)
TaggedGAVs(docs) ==
    IF docs = <<>> THEN <<>>
    ELSE IF contains(Head(docs).ec, SBOMTag)
         THEN <<GAV(Head(docs))>> \o TaggedGAVs(Tail(docs))
         ELSE TaggedGAVs(Tail(docs))

\* searchVersions(artifact, rows, start)
searchVersions(out, docs) ==
    IF out.transport THEN SearchError
    ELSE IF out.status # StatusOK THEN SearchError
    ELSE IF ~out.json THEN SearchError
    ELSE [err |-> FALSE, val |-> TaggedGAVs(docs)]

\* the result set the search server holds for g:GroupID AND a:ArtifactID
VersionDocsOf(artifact) ==
    LET key == [g |-> artifact.GroupID, a |-> artifact.ArtifactID]
    IN  IF key \in DOMAIN srvVersions THEN srvVersions[key] ELSE <<>>

\* mutant of NextStart: the offset counts pages, not records
NextStartByOne(start, g) == start + 1

\* mutant of NextStart: the offset is never advanced
NextStartSame(start, g) == start

\* start += len(g), in collectArtifacts and in collectVersions
NextStart(start, g) == start + Len(g)

\* mutant of OnSearchError: the error is logged and the loop goes on
OnSearchErrorLogged == "running"

\* what a failed page request does to the process: log.Fatalf
OnSearchError == "fatal"

\* mutant of OnDownloadError: log.Fatalf in place of log.Printf
OnDownloadErrorFatal == "fatal"

\* what a failed downloadSBOM does to the process: log.Printf
OnDownloadError == "running"

\* ------------------------------------------------------------- downloadSBOM
NotFound == [status |-> 404, body |-> <<"<html>">>]

\* the response of the repository server for a URL
ResponseOf(url) == IF url \in DOMAIN srvSBOM THEN srvSBOM[url] ELSE NotFound

\* os.Create(name): O_CREATE|O_TRUNC, the file exists and is empty
Create(files, name) ==
    [f \in DOMAIN files \cup {name} |-> IF f = name THEN <<>> ELSE files[f]]

\* f.Write(b) on a file just opened by os.Create: the descriptor's offset is
\* 0, so b replaces the head of what the file holds at that moment and what
\* lies beyond Len(b) stays (one token of a body stands for one unit of it)
Write(files, name, b) ==
    [files EXCEPT ![name] = b \o SubSeq(@, Len(b) + 1, Len(@))]

\* the faults the environment can inject into one downloadSBOM call before
\* its f.Write
Faults == {"none", "transport", "read", "create"}

\* downloadSBOM(gav, minComponents, outputDir) from the response up to
\* os.Create.  fault is the step of the call that fails, if any.  The
\* result is the return taken ("discarded" is the nil return of the filter),
\* or "created" when os.Create has succeeded and the call goes on.
downloadSBOM(gav, minC, fault) ==
    LET resBytes == ResponseOf(DownloadURL(gav)).body
        sbom == Decode(resBytes)
    IN  IF fault = "transport" THEN "transport"
        ELSE IF fault = "read" THEN "read"
        ELSE IF sbom.err THEN "decode"
        ELSE IF Discards(ComponentCount(sbom), minC) THEN "discarded"
        ELSE IF fault = "create" THEN "create"
        ELSE "created"

\* what one f.Write(b) call can put in the file: all of b (n = Len(b), no
\* error) or fewer bytes (an error)
WriteResult(b, n) == IF n = Len(b) THEN "written" ELSE "write"

IsError(outcome) == outcome \notin {"discarded", "written"}

\* ------------------------------------------------------------- state machine
NewWorker ==
    [pc |-> "recv", artifact |-> NoArtifact, start |-> 0, gavs |-> <<>>,
     idx |-> 0, offsets |-> <<>>, res |-> "none"]

\* ev: the call that returned in the step taken last, when that step ended
\* a downloadSBOM call or a failed search request
\* status: the status code of the response the call got (0: no response)
Event(op, w, gav, outcome) ==
    [op |-> op, w |-> w, gav |-> gav, outcome |-> outcome, status |-> 0]

Answered(e, status) == [e EXCEPT !.status = status]

\* history: the return statement a failed search request left by
SearchFailure(out) ==
    IF out.transport THEN "transport"
    ELSE IF out.status # StatusOK THEN "status"
    ELSE "decode"

NoEvent == Event("none", 0, NoGAV, "ok")

Workers == DOMAIN wk

Running == exit = "running"

\* mutant of Pool: the loop runs once more (i <= concurrency)
PoolInclusive(n) == 0..n

\* main, line 33: for i := 0; i < concurrency; i++ starts one goroutine per i
Pool(n) == 1..n

\* main, lines 33-51: start the worker goroutines (no wg.Add is made)
StartWorkers ==
    /\ Running /\ mainPc = "start"
    /\ wk' = [w \in Pool(concurrency) |-> NewWorker]
    /\ mainPc' = "collectArtifacts"
    /\ ev' = NoEvent
    /\ UNCHANGED <<config, mStart, mArtifacts, sendIdx, chan, closed, wg, fs, exit, aOffsets>>

\* collectArtifacts: issue searchArtifacts(rows, start)
ArtifactRequest ==
    /\ Running /\ mainPc = "collectArtifacts"
    /\ mainPc' = "awaitArtifacts"
    /\ aOffsets' = Append(aOffsets, mStart)
    /\ ev' = NoEvent
    /\ UNCHANGED <<config, mStart, mArtifacts, sendIdx, chan, closed, wg, wk, fs, exit>>

\* collectArtifacts: the rest of one loop iteration, the request failed
ArtifactSearchFails ==
    /\ Running /\ mainPc = "awaitArtifacts"
    /\ \E out \in SearchOutcomes :
          /\ searchArtifacts(out, Page(srvArtifacts, rows, mStart)).err
          /\ exit' = OnSearchError
          /\ ev' = Answered(Event("searchArtifacts", 0, NoGAV, SearchFailure(out)), out.status)
    /\ UNCHANGED <<config, mainPc, mStart, mArtifacts, sendIdx, chan, closed, wg, wk, fs, aOffsets>>

\* collectArtifacts: the rest of one loop iteration, the request succeeded
ArtifactSearchReturns ==
    /\ Running /\ mainPc = "awaitArtifacts"
    /\ \E out \in SearchOutcomes :
          LET r == searchArtifacts(out, Page(srvArtifacts, rows, mStart))
          IN  /\ ~r.err
              /\ IF Len(r.val) = 0
                 THEN /\ mainPc' = "send"
                      /\ sendIdx' = 1
                      /\ UNCHANGED <<mStart, mArtifacts>>
                 ELSE /\ mArtifacts' = mArtifacts \o r.val
                      /\ mStart' = NextStart(mStart, r.val)
                      /\ mainPc' = "collectArtifacts"
                      /\ UNCHANGED sendIdx
    /\ ev' = NoEvent
    /\ UNCHANGED <<config, chan, closed, wg, wk, fs, exit, aOffsets>>

\* main, lines 58-60: artifactsChan <- artifact
Send ==
    /\ Running /\ mainPc = "send"
    /\ sendIdx <= Len(mArtifacts)
    /\ Len(chan) < ChanCap
    /\ chan' = Append(chan, mArtifacts[sendIdx])
    /\ sendIdx' = sendIdx + 1
    /\ ev' = NoEvent
    /\ UNCHANGED <<config, mainPc, mStart, mArtifacts, closed, wg, wk, fs, exit, aOffsets>>

\* main, line 62: close(artifactsChan)
Close ==
    /\ Running /\ mainPc = "send"
    /\ sendIdx > Len(mArtifacts)
    /\ closed' = TRUE
    /\ mainPc' = "wait"
    /\ ev' = NoEvent
    /\ UNCHANGED <<config, mStart, mArtifacts, sendIdx, chan, wg, wk, fs, exit, aOffsets>>

\* wg.Wait() returns when the counter is 0
WaitReturns(counter) == counter = 0

\* main, lines 63-64: wg.Wait() and the return of main, which ends the process
Wait ==
    /\ Running /\ mainPc = "wait"
    /\ WaitReturns(wg)
    /\ mainPc' = "done"
    /\ exit' = "returned"
    /\ ev' = NoEvent
    /\ UNCHANGED <<config, mStart, mArtifacts, sendIdx, chan, closed, wg, wk, fs, aOffsets>>

\* worker, line 37: receive the next artifact
Recv(w) ==
    /\ Running /\ wk[w].pc = "recv"
    /\ chan # <<>>
    /\ wk' = [wk EXCEPT ![w] = [pc |-> "collectVersions", artifact |-> Head(chan),
                                start |-> 0, gavs |-> <<>>, idx |-> 0, offsets |-> <<>>,
                                res |-> "none"]]
    /\ chan' = Tail(chan)
    /\ ev' = NoEvent
    /\ UNCHANGED <<config, mainPc, mStart, mArtifacts, sendIdx, closed, wg, fs, exit, aOffsets>>

\* mutant of RangeEnds: the loop ends as soon as the channel is closed
RangeEndsOnClose(ch, cl) == cl

\* worker, line 37: range over a channel ends when the channel is closed
\* and every value sent before the close has been received
RangeEnds(ch, cl) == ch = <<>> /\ cl

\* worker, lines 35 and 37: the channel is closed and empty, the loop ends
\* and the deferred wg.Done() runs; a negative counter panics
WorkerReturns(w) ==
    /\ Running /\ wk[w].pc = "recv"
    /\ RangeEnds(chan, closed)
    /\ wk' = [wk EXCEPT ![w].pc = "done"]
    /\ wg' = wg - 1
    /\ exit' = IF wg - 1 < 0 THEN "panic" ELSE exit
    /\ ev' = NoEvent
    /\ UNCHANGED <<config, mainPc, mStart, mArtifacts, sendIdx, chan, closed, fs, aOffsets>>

\* collectVersions: issue searchVersions(artifact, rows, start)
VersionRequest(w) ==
    /\ Running /\ wk[w].pc = "collectVersions"
    /\ wk' = [wk EXCEPT ![w].pc = "awaitVersions",
                        ![w].offsets = Append(@, wk[w].start)]
    /\ ev' = NoEvent
    /\ UNCHANGED <<config, mainPc, mStart, mArtifacts, sendIdx, chan, closed, wg, fs, exit, aOffsets>>

\* collectVersions: the rest of one loop iteration, the request failed
VersionSearchFails(w) ==
    /\ Running /\ wk[w].pc = "awaitVersions"
    /\ \E out \in SearchOutcomes :
          /\ searchVersions(out, Page(VersionDocsOf(wk[w].artifact), rows, wk[w].start)).err
          /\ exit' = OnSearchError
          /\ ev' = Answered(Event("searchVersions", w, NoGAV, SearchFailure(out)), out.status)
    /\ UNCHANGED <<config, mainPc, mStart, mArtifacts, sendIdx, chan, closed, wg, wk, fs, aOffsets>>

\* collectVersions: the rest of one loop iteration, the request succeeded;
\* on the break, the worker enters its loop over versions (line 43)
VersionSearchReturns(w) ==
    /\ Running /\ wk[w].pc = "awaitVersions"
    /\ \E out \in SearchOutcomes :
          LET r == searchVersions(out, Page(VersionDocsOf(wk[w].artifact), rows, wk[w].start))
          IN  /\ ~r.err
              /\ IF Len(r.val) = 0
                 THEN wk' = [wk EXCEPT ![w].pc = IF wk[w].gavs = <<>> THEN "recv" ELSE "download",
                                       ![w].idx = 1]
                 ELSE wk' = [wk EXCEPT ![w].pc = "collectVersions",
                                       ![w].gavs = @ \o r.val,
                                       ![w].start = NextStart(@, r.val)]
    /\ ev' = NoEvent
    /\ UNCHANGED <<config, mainPc, mStart, mArtifacts, sendIdx, chan, closed, wg, fs, exit, aOffsets>>

\* worker, line 44: call downloadSBOM(version, ...), up to its request
DownloadRequest(w) ==
    /\ Running /\ wk[w].pc = "download"
    /\ wk' = [wk EXCEPT ![w].pc = "awaitDownload"]
    /\ ev' = NoEvent
    /\ UNCHANGED <<config, mainPc, mStart, mArtifacts, sendIdx, chan, closed, wg, fs, exit, aOffsets>>

\* the worker's loop after downloadSBOM returned (lines 43-48): the next
\* version, or the next receive
AfterDownload(w) ==
    [wk EXCEPT ![w].idx = @ + 1,
               ![w].res = "none",
               ![w].pc = IF wk[w].idx + 1 > Len(wk[w].gavs) THEN "recv" ELSE "download"]

\* downloadSBOM, lines 226-256: the response, io.ReadAll, the decoding, the
\* filter and os.Create; every return before f.Write is taken here
DownloadResponse(w) ==
    /\ Running /\ wk[w].pc = "awaitDownload"
    /\ \E fault \in Faults :
          LET gav == wk[w].gavs[wk[w].idx]
              r == downloadSBOM(gav, minComponents, fault)
          IN  IF r = "created"
              THEN /\ fs' = Create(fs, FileName(gav))
                   /\ wk' = [wk EXCEPT ![w].pc = "write"]
                   /\ ev' = NoEvent
                   /\ UNCHANGED exit
              ELSE /\ fs' = fs
                   /\ wk' = AfterDownload(w)
                   /\ exit' = IF IsError(r) THEN OnDownloadError ELSE exit
                   /\ ev' = Answered(Event("downloadSBOM", w, gav, r),
                                     IF r = "transport" THEN 0
                                     ELSE ResponseOf(DownloadURL(gav)).status)
    /\ UNCHANGED <<config, mainPc, mStart, mArtifacts, sendIdx, chan, closed, wg, aOffsets>>

\* downloadSBOM, line 259: f.Write(resBytes)
FileWrite(w) ==
    /\ Running /\ wk[w].pc = "write"
    /\ LET gav == wk[w].gavs[wk[w].idx]
           resBytes == ResponseOf(DownloadURL(gav)).body
           bytes == BytesToWrite(resBytes, Decode(resBytes))
       IN  \E n \in 0..Len(bytes) :
              /\ fs' = Write(fs, FileName(gav), SubSeq(bytes, 1, n))
              /\ wk' = [wk EXCEPT ![w].pc = "close", ![w].res = WriteResult(bytes, n)]
    /\ ev' = NoEvent
    /\ UNCHANGED <<config, mainPc, mStart, mArtifacts, sendIdx, chan, closed, wg, exit, aOffsets>>

\* downloadSBOM, lines 257 and 260-264: the deferred f.Close() and the
\* return, then the worker's loop (lines 45-47)
DownloadReturns(w) ==
    /\ Running /\ wk[w].pc = "close"
    /\ exit' = IF IsError(wk[w].res) THEN OnDownloadError ELSE exit
    /\ ev' = Answered(Event("downloadSBOM", w, wk[w].gavs[wk[w].idx], wk[w].res),
                      ResponseOf(DownloadURL(wk[w].gavs[wk[w].idx])).status)
    /\ wk' = AfterDownload(w)
    /\ UNCHANGED <<config, mainPc, mStart, mArtifacts, sendIdx, chan, closed, wg, fs, aOffsets>>

Next ==
    \/ StartWorkers
    \/ ArtifactRequest
    \/ ArtifactSearchFails
    \/ ArtifactSearchReturns
    \/ Send
    \/ Close
    \/ Wait
    \/ \E w \in Workers : Recv(w)
    \/ \E w \in Workers : WorkerReturns(w)
    \/ \E w \in Workers : VersionRequest(w)
    \/ \E w \in Workers : VersionSearchFails(w)
    \/ \E w \in Workers : VersionSearchReturns(w)
    \/ \E w \in Workers : DownloadRequest(w)
    \/ \E w \in Workers : DownloadResponse(w)
    \/ \E w \in Workers : FileWrite(w)
    \/ \E w \in Workers : DownloadReturns(w)

\* ------------------------------------------------------------- inputs
\* artifact docs the search server can hold.  The first two have distinct
\* coordinates that FileName maps to the same name.
ArtifactDocs ==
    <<[g |-> <<"p", ".", "q">>, a |-> <<"r", "_", "s">>, latestVersion |-> <<"2">>],
      [g |-> <<"p", ".", "q", "_", "r">>, a |-> <<"s">>, latestVersion |-> <<"2">>],
      [g |-> <<"t">>, a |-> <<"u">>, latestVersion |-> <<"1">>],
      [g |-> <<"t", ".", "v">>, a |-> <<"u">>, latestVersion |-> <<"1">>]>>

Digits == <<"1", "2", "3", "4">>

Versions == {<<Digits[i]>> : i \in 1..Min(MaxVersions, Len(Digits))}

Tagged == <<"-sources.jar", ".jar", "-cyclonedx.json">>
Untagged == <<".jar", "-cyclonedx.xml">>

NoRepeat(s) == \A i, j \in 1..Len(s) : i # j => s[i] # s[j]

\* the artifact result sets: docs in any order, none twice
ArtifactLists ==
    {s \in SeqsUpTo({ArtifactDocs[i] : i \in 1..Min(MaxArtifacts, Len(ArtifactDocs))},
                    MaxArtifacts) : NoRepeat(s)}

\* the version result sets of one artifact, without its coordinates: one
\* record per published version, tagged or not
VersionShapes ==
    {s \in SeqsUpTo([v : Versions, ec : {Tagged, Untagged}], MaxVersions) :
        NoRepeat([i \in 1..Len(s) |-> s[i].v])}

VersionDocs(key, shape) ==
    [i \in 1..Len(shape) |->
        [g |-> key.g, a |-> key.a, v |-> shape[i].v, p |-> "jar", ec |-> shape[i].ec]]

\* the response bodies: a BOM with k components (k < 0: no component list),
\* with or without whitespace, a truncated document, an HTML page
BodyOf(k, ws) ==
    <<"{">> \o (IF ws THEN <<" ">> ELSE <<>>)
        \o (IF k < 0 THEN <<>> ELSE <<"components", "[">> \o [i \in 1..k |-> "c"] \o <<"]">>)
        \o <<"}">>

Bodies ==
    {BodyOf(k, ws) : k \in (-1)..MaxComponents, ws \in BOOLEAN}
        \cup {<<"{", "components", "[">>, <<"<html>">>}

Responses == [status : Statuses, body : Bodies]

KeyOf(doc) == [g |-> doc.g, a |-> doc.a]

Ok(body) == [status |-> StatusOK, body |-> body]

\* a server: its artifact result set, the version result set of each of
\* these artifacts, and the repository's response per GAV
Server(artifacts, shape, resp) == [artifacts |-> artifacts, shape |-> shape, resp |-> resp]

GAVsOf(artifacts) ==
    {[GroupID |-> d.g, ArtifactID |-> d.a, Version |-> v] : d \in Range(artifacts), v \in Versions}

InitOf(C, R, M, S) ==
    /\ concurrency \in C
    /\ rows \in R
    /\ minComponents \in M
    /\ \E srv \in S :
          /\ srvArtifacts = srv.artifacts
          /\ srvVersions = [k \in {KeyOf(d) : d \in Range(srv.artifacts)} |->
                               VersionDocs(k, srv.shape[k])]
          /\ srvSBOM = [u \in {DownloadURL(x) : x \in GAVsOf(srv.artifacts)} |->
                           srv.resp[CHOOSE x \in GAVsOf(srv.artifacts) : DownloadURL(x) = u]]
    /\ mainPc = "start"
    /\ mStart = 0
    /\ mArtifacts = <<>>
    /\ sendIdx = 0
    /\ chan = <<>>
    /\ closed = FALSE
    /\ wg = 0
    /\ wk = <<>>
    /\ fs = <<>>
    /\ exit = "running"
    /\ aOffsets = <<>>
    /\ ev = NoEvent

\* one version result set per artifact doc: two versions both tagged, one
\* tagged, one untagged, none
DefaultShape(key) ==
    IF key = KeyOf(ArtifactDocs[1])
    THEN <<[v |-> <<"1">>, ec |-> Tagged], [v |-> <<"2">>, ec |-> Tagged]>>
    ELSE IF key = KeyOf(ArtifactDocs[2])
    THEN <<[v |-> <<"1">>, ec |-> Tagged]>>
    ELSE IF key = KeyOf(ArtifactDocs[3])
    THEN <<[v |-> <<"2">>, ec |-> Untagged]>>
    ELSE <<>>

DefaultShapes(artifacts) ==
    [k \in {KeyOf(d) : d \in Range(artifacts)} |-> DefaultShape(k)]

\* the same response per version for every artifact
PerVersion(artifacts, r) == [x \in GAVsOf(artifacts) |-> r[x.Version]]

\* a BOM for version 1 (two components for the second artifact doc, one for
\* the others), no such file (an HTML page) for the other versions
DefaultResp(artifacts) ==
    [x \in GAVsOf(artifacts) |->
        IF x.Version # <<"1">> THEN NotFound
        ELSE IF x.GroupID = ArtifactDocs[2].g THEN Ok(BodyOf(2, TRUE))
        ELSE Ok(BodyOf(1, TRUE))]

\* the whole run: every worker count, artifact result sets of every length
Init ==
    InitOf(0..MaxWorkers, {MaxRows}, {1},
           {Server(al, DefaultShapes(al), DefaultResp(al)) :
              al \in {SubSeq(ArtifactDocs, 1, k) : k \in 0..Min(MaxArtifacts, Len(ArtifactDocs))}})

Spec == Init /\ [][Next]_vars

\* the two paginations: one worker, every page size, every artifact result
\* set and every version result set
InitSearch ==
    InitOf({1}, 1..MaxRows, {1},
           {Server(al, DefaultShapes(al), DefaultResp(al)) : al \in ArtifactLists}
             \cup {Server(<<ArtifactDocs[1]>>, [k \in {KeyOf(ArtifactDocs[1])} |-> sh],
                             DefaultResp(<<ArtifactDocs[1]>>)) :
                      sh \in VersionShapes})

SpecSearch == InitSearch /\ [][Next]_vars

\* downloadSBOM: one worker, one artifact, every threshold and response
InitDownload ==
    InitOf({1}, {MaxRows}, 0..MaxComponents,
           {Server(<<ArtifactDocs[1]>>,
                   [k \in {KeyOf(ArtifactDocs[1])} |->
                       <<[v |-> <<"1">>, ec |-> Tagged], [v |-> <<"2">>, ec |-> Tagged]>>],
                   PerVersion(<<ArtifactDocs[1]>>,
                              [v \in Versions |->
                                  IF v = <<"1">> THEN r ELSE Ok(BodyOf(MaxComponents, TRUE))])) :
              r \in Responses})

SpecDownload == InitDownload /\ [][Next]_vars

\* ------------------------------------------------------------- properties
\* the worker has finished collectVersions for the artifact it holds
Collected(w) ==
    wk[w].artifact # NoArtifact /\ wk[w].pc \notin {"collectVersions", "awaitVersions"}

\* the worker is inside a downloadSBOM call
Downloading(w) == wk[w].pc \in {"awaitDownload", "write", "close"}

CurrentGAV(w) == wk[w].gavs[wk[w].idx]

HasTag(doc) == \E i \in 1..Len(doc.ec) : doc.ec[i] = SBOMTag

\* the number of components a body lists, counted on the body itself
CountOf(body) == Cardinality({i \in 1..Len(body) : body[i] = "c"})

BodyFor(gav) == ResponseOf(DownloadURL(gav)).body

\* the last step ended a downloadSBOM call that fetched and decoded a document
DecodedDownload(e) ==
    e.op = "downloadSBOM" /\ e.outcome \notin {"transport", "read", "decode"}

\* C1: main returns only once the queue is closed and empty and every
\* worker has left its receive loop (N >= 1 workers).
C1_ReturnsAfterDrain ==
    (concurrency >= 1 /\ exit = "returned") =>
        /\ closed
        /\ chan = <<>>
        /\ \A w \in Workers : wk[w].pc = "done"

\* collectArtifacts has returned: the whole result set, in server order,
\* each record once, after a last request that was served the empty page
ArtifactsCollected ==
    mainPc \in {"send", "wait", "done"} =>
        /\ Page(srvArtifacts, rows, aOffsets[Len(aOffsets)]) = <<>>
        /\ \A i \in 1..(Len(aOffsets) - 1) : Page(srvArtifacts, rows, aOffsets[i]) # <<>>
        /\ Len(mArtifacts) = Len(srvArtifacts)
        /\ \A i \in 1..Len(srvArtifacts) :
              /\ mArtifacts[i].GroupID = srvArtifacts[i].g
              /\ mArtifacts[i].ArtifactID = srvArtifacts[i].a
              /\ mArtifacts[i].LatestVersion = srvArtifacts[i].latestVersion

\* C2 as stated: collectArtifacts requests offsets 0, P, 2P, ... in order,
\* stops at the first empty page and returns the whole result set in server
\* order, each record once.
C2_OffsetsMultiplesOfP ==
    /\ \A i \in 1..Len(aOffsets) : aOffsets[i] = (i - 1) * rows
    /\ ArtifactsCollected

\* C2 as amended: the k-th request has offset min((k-1)P, L) for a result
\* set of L records (after a short last page the next offset is L, not a
\* multiple of P); collectArtifacts stops at the first empty page and returns
\* the whole result set in server order, each record once, so that the
\* result depends on the result set and P alone.
C2_ArtifactPagination ==
    /\ \A i \in 1..Len(aOffsets) : aOffsets[i] = Min((i - 1) * rows, Len(srvArtifacts))
    /\ ArtifactsCollected

C2_Witness ==
    /\ mainPc = "send"
    /\ Len(srvArtifacts) = 3 /\ rows = 2
    /\ aOffsets = <<0, 2, 3>>
    /\ Len(mArtifacts) = 3

\* C3: a worker calls downloadSBOM for a GAV only if a record of a page it
\* was served has that group, artifact and version and carries the tag.
C3_NoSpeculativeDownload ==
    \A w \in Workers :
        Downloading(w) =>
            \E i \in 1..Len(VersionDocsOf(wk[w].artifact)) :
                LET doc == VersionDocsOf(wk[w].artifact)[i]
                IN  /\ HasTag(doc)
                    /\ doc.g = CurrentGAV(w).GroupID
                    /\ doc.a = CurrentGAV(w).ArtifactID
                    /\ doc.v = CurrentGAV(w).Version
                    /\ \E k \in 1..Len(wk[w].offsets) :
                          wk[w].offsets[k] < i /\ i <= wk[w].offsets[k] + rows

C3_Witness ==
    \E w \in Workers :
        /\ Downloading(w)
        /\ CurrentGAV(w).Version = <<"2">>
        /\ \E i \in 1..Len(VersionDocsOf(wk[w].artifact)) :
              LET doc == VersionDocsOf(wk[w].artifact)[i]
              IN  doc.v = <<"1">> /\ ~HasTag(doc)

\* C4: once collectVersions has returned, its list holds every record of
\* the version result set that carries the tag.
C4_AllTaggedCollected ==
    \A w \in Workers :
        Collected(w) =>
            \A i \in 1..Len(VersionDocsOf(wk[w].artifact)) :
                LET doc == VersionDocsOf(wk[w].artifact)[i]
                IN  HasTag(doc) =>
                        \E j \in 1..Len(wk[w].gavs) :
                            /\ wk[w].gavs[j].GroupID = doc.g
                            /\ wk[w].gavs[j].ArtifactID = doc.a
                            /\ wk[w].gavs[j].Version = doc.v

\* C5: every GAV handed to downloadSBOM is the latest version of its
\* artifact (so at most one version per artifact is downloaded).
C5_LatestVersionOnly ==
    \A w \in Workers :
        Downloading(w) => CurrentGAV(w).Version = wk[w].artifact.LatestVersion

\* C6: a fetched and decoded document passes the filter if and only if it
\* lists at least minComponents components (no list: 0); a passed document
\* is written unless creating or writing the file fails.
C6_AcceptIffEnough ==
    DecodedDownload(ev) =>
        /\ (ev.outcome # "discarded") <=> (CountOf(BodyFor(ev.gav)) >= minComponents)
        /\ ev.outcome \in {"discarded", "written", "create", "write"}
        /\ ev.outcome = "written" => FileName(ev.gav) \in DOMAIN fs

C6_Witness ==
    /\ DecodedDownload(ev)
    /\ ev.outcome = "written"
    /\ minComponents >= 1
    /\ CountOf(BodyFor(ev.gav)) = minComponents

\* the step is one of worker w inside downloadSBOM for the file f
StepOn(w, f) ==
    /\ wk[w].pc \in {"awaitDownload", "write"}
    /\ wk'[w] # wk[w]
    /\ f = FileName(CurrentGAV(w))

\* C7: when a downloadSBOM call returns after writing, the file named after
\* its GAV holds exactly the bytes of the response body; a step of a call
\* creates or changes no file other than the one named after its GAV.
C7_VerbatimOutput ==
    /\ [](ev.op = "downloadSBOM" /\ ev.outcome = "written" =>
            /\ FileName(ev.gav) \in DOMAIN fs
            /\ fs[FileName(ev.gav)] = BodyFor(ev.gav))
    /\ [][\A f \in DOMAIN fs' :
             (f \notin DOMAIN fs \/ fs'[f] # fs[f]) => \E w \in Workers : StepOn(w, f)]_vars

\* the worker's loop over versions after a downloadSBOM call of worker w
\* returned: the next version, or the next receive, with its list unchanged
WorkerGoesOn(w) ==
    /\ wk'[w].gavs = wk[w].gavs
    /\ wk'[w].artifact = wk[w].artifact
    /\ wk'[w].idx = wk[w].idx + 1
    /\ wk'[w].pc = IF wk[w].idx < Len(wk[w].gavs) THEN "download" ELSE "recv"

\* C8: a fetched and decoded document with fewer components than the
\* threshold is no error, changes no file, and the worker goes on.
C8_RejectionHasNoEffect ==
    [][(DecodedDownload(ev') /\ CountOf(BodyFor(ev'.gav)) < minComponents) =>
          /\ ev'.outcome = "discarded"
          /\ fs' = fs
          /\ exit' = "running"
          /\ WorkerGoesOn(ev'.w)]_vars

C8_Witness ==
    /\ ev.op = "downloadSBOM" /\ ev.outcome = "discarded"
    /\ ev.gav.Version = <<"1">>
    /\ CountOf(BodyFor(ev.gav)) = minComponents - 1
    /\ wk[ev.w].pc = "download"
    /\ fs = <<>>

\* C9: a failed downloadSBOM call does not end the process; a transport,
\* read or decode failure changes no file; the worker goes on with the next
\* version or the next receive; the other workers and the queue are as before.
C9_DownloadFailureIsolated ==
    [][(ev'.op = "downloadSBOM" /\ IsError(ev'.outcome)) =>
          /\ exit' = "running"
          /\ ev'.outcome \in {"transport", "read", "decode"} => fs' = fs
          /\ WorkerGoesOn(ev'.w)
          /\ \A v \in Workers : v # ev'.w => wk'[v] = wk[v]
          /\ chan' = chan /\ closed' = closed /\ mainPc' = mainPc]_vars

C9_Witness ==
    /\ ev.op = "downloadSBOM" /\ ev.outcome = "transport"
    /\ exit = "running"
    /\ wk[ev.w].pc = "download"
    /\ \E v \in Workers : v # ev.w /\ Downloading(v)

\* C10: a failed page request of either search ends the process in that
\* step; an ended process takes no further step; when the artifact search
\* fails, nothing was sent, received or written.
C10_SearchFailureFatal ==
    /\ [](ev.op \in {"searchArtifacts", "searchVersions"} => exit = "fatal")
    /\ [](ev.op = "searchArtifacts" =>
            /\ chan = <<>> /\ sendIdx = 0 /\ fs = <<>>
            /\ \A w \in Workers : wk[w].pc = "recv" /\ wk[w].artifact = NoArtifact)
    /\ [][exit = "running"]_vars

C10_Witness ==
    /\ ev.op = "searchVersions" /\ exit = "fatal"
    /\ \E v \in Workers : Downloading(v)

\* C11: each of the three requests is a success if and only if the status
\* of its response is in 200..299: no search fails on the status of a 2xx
\* response, and a download answered with another status is an error whose
\* body is not decoded and for which no file is written.
C11_StatusContract ==
    /\ (ev.op \in {"searchArtifacts", "searchVersions"} /\ ev.outcome = "status") =>
          ev.status \notin 200..299
    /\ (ev.op = "downloadSBOM" /\ ev.outcome # "transport" /\ ev.status \notin 200..299) =>
          /\ IsError(ev.outcome)
          /\ ev.outcome \notin {"decode", "create", "write"}

\* C12: FileName is injective over the GAVs of a run: two distinct GAVs that
\* workers have collected never share a file name (so no write of one GAV
\* replaces the file of another, and no two workers write the same file).
C12_OneFilePerGAV ==
    \A w, v \in Workers :
        \A i \in 1..Len(wk[w].gavs), j \in 1..Len(wk[v].gavs) :
            wk[w].gavs[i] # wk[v].gavs[j] =>
                FileName(wk[w].gavs[i]) # FileName(wk[v].gavs[j])

\* the page the server returned for the k-th request of the worker
ServedPage(w, k) == Page(VersionDocsOf(wk[w].artifact), rows, wk[w].offsets[k])

\* C13: in collectVersions each requested offset is the previous one plus
\* the number of records the server returned for it, and the loop stops
\* only on a page of zero records (no record is requested twice or skipped).
C13_VersionPagination ==
    \A w \in Workers :
        /\ \A k \in 1..(Len(wk[w].offsets) - 1) :
              wk[w].offsets[k + 1] = wk[w].offsets[k] + Len(ServedPage(w, k))
        /\ Collected(w) => ServedPage(w, Len(wk[w].offsets)) = <<>>

\* the artifact search has returned its terminating empty page
ArtifactSearchOver ==
    /\ mainPc \in {"send", "wait", "done"}
    /\ aOffsets # <<>>
    /\ Page(srvArtifacts, rows, aOffsets[Len(aOffsets)]) = <<>>

\* an artifact has been put on the queue
Queued == sendIdx > 1 \/ chan # <<>> \/ \E w \in Workers : wk[w].artifact # NoArtifact

\* C14: nothing is put on the queue before the artifact search returned its
\* terminating empty page, the queue is closed only after the last collected
\* artifact was sent, and a worker leaves its receive loop only when the
\* queue is closed and empty.
C14_QueueOrdering ==
    [][/\ Len(chan') > Len(chan) => ArtifactSearchOver
       /\ (closed' /\ ~closed) => (ArtifactSearchOver /\ sendIdx = Len(mArtifacts) + 1)
       /\ (Queued' \/ closed') => ArtifactSearchOver'
       /\ \A w \in Workers :
             (wk'[w].pc = "done" /\ wk[w].pc # "done") => (closed /\ chan = <<>>)]_vars

\* C14 witness: a worker left its loop after two artifacts went through the
\* queue
C14_Witness ==
    /\ closed /\ chan = <<>>
    /\ Len(mArtifacts) >= 2 /\ sendIdx = Len(mArtifacts) + 1
    /\ \E w \in Workers : wk[w].pc = "done" /\ wk[w].artifact # NoArtifact

\* the HTTP requests in flight: the one of the producer and those of workers
InFlight ==
    (IF mainPc = "awaitArtifacts" THEN 1 ELSE 0)
        + Cardinality({w \in Workers : wk[w].pc \in {"awaitVersions", "awaitDownload"}})

\* C15: with N >= 1 workers at most N requests are in flight, and the
\* producer has a request out only while no worker holds an artifact.
C15_BoundedInFlight ==
    concurrency >= 1 =>
        /\ InFlight <= concurrency
        /\ mainPc \in {"collectArtifacts", "awaitArtifacts"} =>
              \A w \in Workers : wk[w].pc = "recv" /\ wk[w].artifact = NoArtifact

\* C15 witness: every one of two workers has a request out
C15_Witness ==
    /\ concurrency = 2 /\ InFlight = 2
    /\ \E w \in Workers : wk[w].pc = "awaitDownload"
    /\ \E w \in Workers : wk[w].pc = "awaitVersions"

\* the offsets of one loop: each above the one before, none beyond the size
\* of the result set (so no more than size + 1 requests are made)
Advancing(offsets, size) ==
    /\ \A k \in 1..(Len(offsets) - 1) : offsets[k] < offsets[k + 1]
    /\ \A k \in 1..Len(offsets) : offsets[k] <= size
    /\ Len(offsets) <= size + 1

\* C16: against a fixed finite result set collectArtifacts and
\* collectVersions make finitely many page requests (at most one more than
\* the set has records), whatever records are tagged.
C16_PaginationTerminates ==
    /\ Advancing(aOffsets, Len(srvArtifacts))
    /\ \A w \in Workers :
          wk[w].artifact # NoArtifact =>
              Advancing(wk[w].offsets, Len(VersionDocsOf(wk[w].artifact)))

\* C16 witness: both loops have ended, the version loop after three requests
\* on a set that holds an untagged record
C16_Witness ==
    /\ ArtifactSearchOver /\ Len(aOffsets) >= 2
    /\ \E w \in Workers :
          /\ Collected(w) /\ Len(wk[w].offsets) = 3
          /\ \E i \in 1..Len(VersionDocsOf(wk[w].artifact)) :
                ~HasTag(VersionDocsOf(wk[w].artifact)[i])

\* C17: the WaitGroup counter is never negative, no worker panics on
\* wg.Done(), and wg.Wait() does not return while a started worker has not
\* left its loop.
C17_WaitGroupDiscipline ==
    /\ wg >= 0
    /\ exit # "panic"
    /\ mainPc = "done" => \A w \in Workers : wk[w].pc = "done"

\* C18: on a result set of pairwise distinct versions collectVersions
\* returns no GAV twice, so no GAV is downloaded twice in a run.
C18_NoDuplicateGAV ==
    \A w \in Workers :
        NoRepeat([i \in 1..Len(VersionDocsOf(wk[w].artifact)) |->
                     VersionDocsOf(wk[w].artifact)[i].v]) =>
            NoRepeat(wk[w].gavs)

\* the producer is blocked on a send and no worker will receive
ProducerStuck ==
    /\ Running /\ mainPc = "send"
    /\ sendIdx <= Len(mArtifacts) /\ Len(chan) = ChanCap
    /\ \A w \in Workers : wk[w].pc = "done"

\* C19: for every accepted concurrency value there is no reachable state in
\* which the producer is blocked on a send and no worker can ever receive.
C19_ProducerNeverStuck == ~ProducerStuck

====
